---- MODULE Spec2Model ----
(***************************************************************************)
(* TempDLM: the deletion engine (src/main/deletionEngine.ts), the queue    *)
(* store (src/main/store.ts), the IPC command handlers (src/main/index.ts) *)
(* and the unlink side of the file watcher (src/main/fileWatcher.ts).      *)
(*                                                                         *)
(* Time is in milliseconds.  The event loop is single threaded: every      *)
(* action below is one macrotask (a timer callback, an IPC handler, an     *)
(* I/O completion) together with the promise continuations (microtasks)    *)
(* it makes runnable.                                                      *)
(***************************************************************************)
EXTENDS Integers, Sequences, FiniteSets, TLC

\* ---------------------------------------------------------------- constants
SNOOZE_MINUTES     == 10
MAX_SNOOZE_COUNT   == 3
CONFIRM_TIMEOUT_MS == 15000
OVERDUE_STAGGER_MS == 500
RENAME_WINDOW_MS   == 3000
DEBOUNCE_MS        == 500
NAME_CAP           == 32

MsPerMinute == 60 * 1000

\* ------------------------------------------------------------------- bounds
NumItems    == 1        \* persisted entities at start-up (Spec, SpecAuto)
MaxItems    == 3        \* entity ids: persisted ones and those the watcher creates
MaxJobs     == 3        \* node-schedule jobs alive at once
MaxFirings  == 2        \* attemptDeletion calls suspended at once
MaxCommands == 4        \* user commands and external file removals per run
BootTime    == 60000    \* Date.now() when the process starts
MaxTime     == 675000   \* Spec: the clock stops advancing here
LongTime    == 2200000  \* SpecAuto: the clock stops advancing here
MaxWatchPaths == 2      \* SpecWatch: paths of the watched folder that see events
MaxWatchOps == 4        \* SpecWatch: file operations, raw events, waits and commands
WatchSpan   == 4000     \* SpecWatch: the clock stops advancing this long after boot
DialogSpan  == 50000    \* SpecDialog: the clock stops advancing this long after boot

Null == -1

Ids      == 1..MaxItems
Paths    == 1..MaxItems
CmdIds   == 1..NumItems     \* the ids user commands name in Spec
Handles  == 1..MaxJobs
Slots    == 1..MaxFirings
Statuses == {"pending", "scheduled", "snoozed", "confirming", "deleting",
             "deleted", "failed", "whitelisted"}

\* minutes a user can pass to scheduleItem (null = never delete)
MinuteChoices == {Null, 10}

Min(S) == CHOOSE x \in S : \A y \in S : x <= y

\* ------------------------------------------------------------------- state
VARIABLES
    now,        \* Date.now()
    phase,      \* "boot" (before app.whenReady ran), "running", "quit"
    queue,      \* store: id -> QueueItem, or the Absent record
    fsys,       \* the watched folder: path -> inode of the file there, 0 = none
    jobs,       \* deletionEngine jobs Map: id -> 0 (no entry), Dead, or a handle
    sched,      \* node-schedule: handle -> live job [item, at], or NoJob
    stagger,    \* reconcileOnStartup setTimeout: id -> due time or Null
    pend,       \* pendingConfirmations Map: id -> 0 or the slot whose resolver it holds
    ctimer,     \* waitForConfirmation setTimeout: slot -> due time or Null
    firings,    \* suspended attemptDeletion calls: slot -> frame
    unlinkQ,    \* raw chokidar unlink events not yet delivered
    ru,         \* recentlyUnlinkedByInode Map: inode -> [itemId, due] or NoEntry
    utimers,    \* live rename-window expiry timers [id, ino, due]
    ev,         \* what the last step did
    kept,       \* id -> a firing resolved keep and no scheduleItem/snoozeItem since
    cancelled,  \* id -> cancelItem returned and no scheduleItem/snoozeItem since
    lockRun,    \* id -> consecutive Tier-1-locked firings since snoozeCount 0, or Null
    ncmd,       \* commands issued so far
    probe,      \* a probe call on its own: [fn, in, out]
    debounce,   \* fileWatcher debounceTimers Map: path -> due time or Null
    used,       \* ids handed out so far (randomUUID never repeats one)
    burst,      \* path -> raw add events since handleNewFile last ran: [n, first, last]
    unlinked,   \* inode -> the last raw unlink of a tracked entity not yet reconciled: [id, at]
    reported,   \* path -> inode of the file there that a raw add event has reported, or 0
    watchers,   \* the chokidar instances created so far: [folder, since, open]; the
                \* last one, while open, is fileWatcher's `watcher`
    dialogs     \* the renderer's ConfirmQueue: [mounted, queue, responded, shown]

vars == <<now, phase, queue, fsys, jobs, sched, stagger, pend, ctimer, firings,
          unlinkQ, ru, utimers, ev, kept, cancelled, lockRun, ncmd, probe, debounce, used, burst, unlinked,
          watchers, reported, dialogs>>

Dead    == -1
NoJob   == [item |-> 0, at |-> Null]
NoEntry == [itemId |-> 0, due |-> Null]
Absent  == [status |-> "absent", scheduledFor |-> Null, snoozeCount |-> 0,
            error |-> "", filePath |-> 0, inode |-> 0, fileSize |-> 0]
FreeFrame == [pc |-> "free", item |-> 0, path |-> 0, snooze |-> 0,
              existed |-> FALSE, locked |-> FALSE, matched |-> FALSE,
              decision |-> "none", via |-> "none", trashCalls |-> 0,
              startedAt |-> Null]

\* ------------------------------------------------------------------- store
getQueueItem(q, id) == q[id]

Has(q, id) == q[id].status # "absent"

\* { ...queue[idx], ...patch }; null when the id is not in the queue
patchQueueItem(q, id, patch) ==
    IF ~Has(q, id) THEN q
    ELSE [q EXCEPT ![id] = [f \in DOMAIN q[id] |->
                               IF f \in DOMAIN patch THEN patch[f] ELSE q[id][f]]]

removeQueueItem(q, id) == [q EXCEPT ![id] = Absent]

\* getQueue().find over the newest-first array: the highest id wins
FindActiveByPath(q, p) ==
    LET S == {i \in Ids : Has(q, i) /\ q[i].filePath = p
                          /\ q[i].status \notin {"deleted", "failed"}}
    IN  IF S = {} THEN 0 ELSE CHOOSE i \in S : \A j \in S : j <= i

\* ---------------------------------------------------------------- snapshot
\* The engine's mutable state as one value, so that a handler is a
\* composition of the functions it calls.  trashed: ids for which _trash()
\* was called in the current step.
Cur == [queue |-> queue, fsys |-> fsys, jobs |-> jobs, sched |-> sched,
        pend |-> pend, ctimer |-> ctimer, firings |-> firings,
        unlinkQ |-> unlinkQ, kept |-> kept, cancelled |-> cancelled,
        dialogs |-> dialogs, trashed |-> {}]

Patch(E, id, patch) == [E EXCEPT !.queue = patchQueueItem(E.queue, id, patch)]

\* ---------------------------------------------------------------- scheduler
\* job.cancel() on whatever the jobs Map holds for id (the entry stays)
CancelJob(E, id) ==
    IF E.jobs[id] \in Handles
    THEN [E EXCEPT !.sched[E.jobs[id]] = NoJob, !.jobs[id] = Dead]
    ELSE E

\* jobs.delete(id): drops the table entry, does not cancel the job
JobsDelete(E, id) == [E EXCEPT !.jobs[id] = 0]

FreeHandles(E) == {h \in Handles : E.sched[h] = NoJob}

\* schedule.scheduleJob(date, cb) returns null for a date in the past
scheduleJobAt(E, id, fireAt) ==
    LET E1 == CancelJob(E, id)
        h  == Min(FreeHandles(E1))
    IN  IF fireAt < now THEN E1
        ELSE [E1 EXCEPT !.sched[h] = [item |-> id, at |-> fireAt], !.jobs[id] = h]

\* ------------------------------------------------------------------ probes
\* spawnSync result of the Restart Manager script and the three renameSync
\* calls of the fallback: r1 = path -> tmp, r2 = tmp -> path, r3 = the
\* restoring rename in the catch block.
T1Inputs == [err : BOOLEAN, status : {0, 1, 2}, r1 : BOOLEAN, r2 : BOOLEAN, r3 : BOOLEAN]

isFileLocked(in) ==
    IF in.err
    THEN IF in.r1 /\ in.r2 THEN FALSE ELSE TRUE
    ELSE in.status # 0

\* the fallback left the file under its .tdlm_lock_test name
LeftAtTmp(in) == in.err /\ in.r1 /\ ~in.r2 /\ ~in.r3

\* stdout lines of the Get-Process script, each given by its trimmed length
T2Outputs == {<<>>, <<0>>, <<7>>, <<40>>, <<7, 0, 9>>, <<5, 6, 7, 8, 9>>}
T2Inputs  == [err : BOOLEAN, status : {0, 1}, out : T2Outputs]

SelectSeqPos(s) == SelectSeq(s, LAMBDA n : n > 0)

\* the exit status left unchecked
isFileInWindowTitleAnyStatus(in) ==
    IF in.err THEN <<>>
    ELSE SelectSeqPos([k \in 1..Len(in.out) |->
                          IF in.out[k] > NAME_CAP THEN NAME_CAP ELSE in.out[k]])

\* .map(s => s.trim().slice(0, 32)).filter(Boolean)
isFileInWindowTitle(in) ==
    IF in.err \/ in.status # 0 THEN <<>>
    ELSE SelectSeqPos([k \in 1..Len(in.out) |->
                          IF in.out[k] > NAME_CAP THEN NAME_CAP ELSE in.out[k]])

\* ------------------------------------------------------------ confirmation
FreeSlots(E) == {f \in Slots : E.firings[f].pc = "free"}

\* new Promise(resolve => { timer = setTimeout(...); pendingConfirmations.set(id, {resolve, timer}) })
waitForConfirmation(E, id, f) ==
    [E EXCEPT !.ctimer[f] = now + CONFIRM_TIMEOUT_MS, !.pend[id] = f]

\* confirmPayload.confirmationStartedAt
Started(frame) == [frame EXCEPT !.startedAt = now]

\* resolve(decision) of the promise slot f awaits; a second resolve is ignored
Resolve(E, f, d, via) ==
    IF E.firings[f].pc = "confirm" /\ E.firings[f].decision = "none"
    THEN [E EXCEPT !.firings[f].decision = d, !.firings[f].via = via]
    ELSE E

\* ------------------------------------------------------------ ConfirmQueue
\* The renderer component's state: queue is its useState array of payloads
\* [item, deadline], the first of which ConfirmDeleteDialog displays;
\* responded is the dialog's `responded` ref, which lives as long as the
\* dialog element stays rendered, that is while the queue is not empty;
\* shown records every payload that has been displayed.  mounted is false
\* where the renderer is left out: nothing then listens to the event.
NoDialogs == [mounted |-> FALSE, queue |-> <<>>, responded |-> FALSE, shown |-> {}]
Listening == [NoDialogs EXCEPT !.mounted = TRUE]

\* the render after a state change: queue[0] is what the dialog displays
Render(D) ==
    IF D.queue = <<>> THEN [D EXCEPT !.responded = FALSE]
    ELSE [D EXCEPT !.shown = @ \cup {Head(D.queue)}]

\* the onFileConfirmDelete listener: setQueue((q) => [...q, payload])
onFileConfirmDelete(D, payload) ==
    IF ~D.mounted THEN D
    ELSE Render([D EXCEPT !.queue = Append(@, payload)])

\* dismiss: setQueue((q) => q.slice(1))
dismiss(D) == Render([D EXCEPT !.queue = Tail(@)])

\* win.webContents.send(FILE_CONFIRM_DELETE, confirmPayload)
sendConfirmDelete(E, id) ==
    [E EXCEPT !.dialogs = onFileConfirmDelete(@, [item |-> id,
                              deadline |-> now + CONFIRM_TIMEOUT_MS])]

resolveConfirmation(E, id, d, via) ==
    IF E.pend[id] = 0 THEN E
    ELSE LET f == E.pend[id]
         IN  Resolve([E EXCEPT !.ctimer[f] = Null, !.pend[id] = 0], f, d, via)

\* the timeout resolving "keep" instead of "delete"
confirmTimeoutKeeps(E, f) ==
    Resolve([E EXCEPT !.ctimer[f] = Null, !.pend[E.firings[f].item] = 0],
            f, "keep", "timeout")

\* the timeout forgetting to settle the promise
confirmTimeoutLost(E, f) ==
    [E EXCEPT !.ctimer[f] = Null, !.pend[E.firings[f].item] = 0]

\* the setTimeout callback of waitForConfirmation for slot f
confirmTimeout(E, f) ==
    Resolve([E EXCEPT !.ctimer[f] = Null, !.pend[E.firings[f].item] = 0],
            f, "delete", "timeout")

\* ---------------------------------------------------------- attemptDeletion
\* step 4 up to the await: status deleting, then _trash(item.filePath)
TrashStep(E, id, f, frame) ==
    [Patch(E, id, [status |-> "deleting"]) EXCEPT
        !.firings[f] = [frame EXCEPT !.pc = "trash", !.trashCalls = @ + 1],
        !.trashed = @ \cup {id}]

\* the retry limit compared with >= instead of >
LockedBranchOffByOne(E, id, item) ==
    LET newSnoozeCount == item.snoozeCount + 1
        snoozedUntil   == now + SNOOZE_MINUTES * MsPerMinute
    IN  IF newSnoozeCount >= MAX_SNOOZE_COUNT
        THEN JobsDelete(Patch(E, id, [status |-> "failed",
                                      error |-> "File remained locked after max retries"]), id)
        ELSE scheduleJobAt(Patch(E, id, [status |-> "snoozed",
                                         snoozeCount |-> newSnoozeCount,
                                         scheduledFor |-> snoozedUntil]), id, snoozedUntil)

\* step 2 when isFileLocked returned true
LockedBranch(E, id, item) ==
    LET newSnoozeCount == item.snoozeCount + 1
        snoozedUntil   == now + SNOOZE_MINUTES * MsPerMinute
    IN  IF newSnoozeCount > MAX_SNOOZE_COUNT
        THEN JobsDelete(Patch(E, id, [status |-> "failed",
                                      error |-> "File remained locked after max retries"]), id)
        ELSE scheduleJobAt(Patch(E, id, [status |-> "snoozed",
                                         snoozeCount |-> newSnoozeCount,
                                         scheduledFor |-> snoozedUntil]), id, snoozedUntil)

\* attemptDeletion from its entry to its first await (or its return)
\* a firing that goes to the probes without looking for the file
attemptDeletionNoExistenceCheck(E, id, t1, t2) ==
    LET item  == getQueueItem(E.queue, id)
        f     == Min(FreeSlots(E))
        E1    == IF LeftAtTmp(t1)
                 THEN [E EXCEPT !.fsys[item.filePath] = 0,
                                !.unlinkQ = @ \cup {item.filePath}]
                 ELSE E
        match == isFileInWindowTitle(t2)
        frame == [FreeFrame EXCEPT !.item = id, !.path = item.filePath,
                                   !.snooze = item.snoozeCount, !.existed = TRUE,
                                   !.matched = Len(match) > 0]
    IN  IF ~Has(E.queue, id) THEN E
        ELSE IF isFileLocked(t1) THEN LockedBranch(E1, id, item)
        ELSE IF Len(match) > 0
        THEN waitForConfirmation(sendConfirmDelete(
                 [Patch(E1, id, [status |-> "confirming"]) EXCEPT
                     !.firings[f] = Started([frame EXCEPT !.pc = "confirm"])], id), id, f)
        ELSE TrashStep(E1, id, f, frame)

attemptDeletion(E, id, t1, t2) ==
    LET item  == getQueueItem(E.queue, id)
        f     == Min(FreeSlots(E))
        E1    == IF LeftAtTmp(t1)
                 THEN [E EXCEPT !.fsys[item.filePath] = 0,
                                !.unlinkQ = @ \cup {item.filePath}]
                 ELSE E
        match == isFileInWindowTitle(t2)
        frame == [FreeFrame EXCEPT !.item = id, !.path = item.filePath,
                                   !.snooze = item.snoozeCount, !.existed = TRUE,
                                   !.matched = Len(match) > 0]
    IN  IF ~Has(E.queue, id) THEN E
        ELSE IF E.fsys[item.filePath] = 0
        THEN JobsDelete(Patch(E, id, [status |-> "deleted"]), id)
        ELSE IF isFileLocked(t1) THEN LockedBranch(E1, id, item)
        ELSE IF Len(match) > 0
        THEN waitForConfirmation(sendConfirmDelete(
                 [Patch(E1, id, [status |-> "confirming"]) EXCEPT
                     !.firings[f] = Started([frame EXCEPT !.pc = "confirm"])], id), id, f)
        ELSE TrashStep(E1, id, f, frame)

\* the decision of the confirmation ignored
AfterConfirmAlwaysTrash(E, f) == TrashStep(E, E.firings[f].item, f, E.firings[f])

\* attemptDeletion after `await waitForConfirmation` up to the next await
AfterConfirm(E, f) ==
    LET fr == E.firings[f]
        id == fr.item
    IN  IF fr.decision = "keep"
        THEN [JobsDelete(Patch(E, id, [status |-> "pending", scheduledFor |-> Null]), id)
                EXCEPT !.firings[f] = FreeFrame, !.kept[id] = TRUE]
        ELSE TrashStep(E, id, f, fr)

\* the promise continuations made runnable by the current macrotask
RECURSIVE Drain(_, _)
Drain(E, S) ==
    IF S = {} THEN E
    ELSE LET f == Min(S)
         IN  Drain(IF E.firings[f].pc = "confirm" /\ E.firings[f].decision # "none"
                   THEN AfterConfirm(E, f) ELSE E, S \ {f})

RunMicrotasks(E) == Drain(E, Slots)

\* showSnoozeNotification(getQueueItem(id)!, win) reads item.fileName when
\* notifications are on and the window is hidden: a TypeError if the item
\* has been removed from the store
SnoozeNotifyThrows(E, id, notif) == notif /\ ~Has(E.queue, id)

\* a trash failure that counts its retries apart from the lock's counter
AfterTrashOwnCounter(E, f, ok, notif) ==
    LET fr == E.firings[f]
        id == fr.item
        E1 == [E EXCEPT !.firings[f] = FreeFrame]
        E2 == IF E1.fsys[fr.path] # 0
              THEN [E1 EXCEPT !.fsys[fr.path] = 0, !.unlinkQ = @ \cup {fr.path}]
              ELSE E1
        newSnoozeCount == fr.trashCalls + 1
        snoozedUntil   == now + SNOOZE_MINUTES * MsPerMinute
        E3 == Patch(E1, id, [status |-> "snoozed", snoozeCount |-> newSnoozeCount,
                             scheduledFor |-> snoozedUntil])
    IN  IF ok THEN JobsDelete(Patch(E2, id, [status |-> "deleted"]), id)
        ELSE IF newSnoozeCount > MAX_SNOOZE_COUNT
        THEN JobsDelete(Patch(E1, id, [status |-> "failed", error |-> "trash error"]), id)
        ELSE IF SnoozeNotifyThrows(E3, id, notif) THEN E3
        ELSE scheduleJobAt(E3, id, snoozedUntil)

\* attemptDeletion after `await _trash(item.filePath)`: ok = the promise
\* fulfilled, otherwise the catch block
AfterTrash(E, f, ok, notif) ==
    LET fr == E.firings[f]
        id == fr.item
        E1 == [E EXCEPT !.firings[f] = FreeFrame]
        E2 == IF E1.fsys[fr.path] # 0
              THEN [E1 EXCEPT !.fsys[fr.path] = 0, !.unlinkQ = @ \cup {fr.path}]
              ELSE E1
        newSnoozeCount == (IF Has(E1.queue, id) THEN E1.queue[id].snoozeCount
                                                ELSE fr.snooze) + 1
        snoozedUntil   == now + SNOOZE_MINUTES * MsPerMinute
        E3 == Patch(E1, id, [status |-> "snoozed", snoozeCount |-> newSnoozeCount,
                             scheduledFor |-> snoozedUntil])
    IN  IF ok THEN JobsDelete(Patch(E2, id, [status |-> "deleted"]), id)
        ELSE IF newSnoozeCount > MAX_SNOOZE_COUNT
        THEN JobsDelete(Patch(E1, id, [status |-> "failed", error |-> "trash error"]), id)
        ELSE IF SnoozeNotifyThrows(E3, id, notif) THEN E3
        ELSE scheduleJobAt(E3, id, snoozedUntil)

\* --------------------------------------------------------------- public API
\* an explicit scheduling that also clears the retry counter
scheduleItemResetsCount(E, id, minutes) ==
    LET E1     == CancelJob(E, id)
        fireAt == now + minutes * MsPerMinute
    IN  IF minutes = Null
        THEN Patch(E1, id, [status |-> "pending", scheduledFor |-> Null])
        ELSE scheduleJobAt(Patch(E1, id, [status |-> "scheduled", snoozeCount |-> 0,
                                          scheduledFor |-> fireAt]), id, fireAt)

scheduleItem(E, id, minutes) ==
    LET E1     == CancelJob(E, id)
        fireAt == now + minutes * MsPerMinute
    IN  IF minutes = Null
        THEN Patch(E1, id, [status |-> "pending", scheduledFor |-> Null])
        ELSE scheduleJobAt(Patch(E1, id, [status |-> "scheduled",
                                          scheduledFor |-> fireAt]), id, fireAt)

cancelItem(E, id) ==
    LET E1 == IF E.jobs[id] # 0 THEN JobsDelete(CancelJob(E, id), id) ELSE E
        E2 == resolveConfirmation(E1, id, "keep", "cancel")
    IN  [Patch(E2, id, [status |-> "pending", scheduledFor |-> Null])
            EXCEPT !.cancelled[id] = TRUE]

\* a manual snooze that always counts from now
snoozeItemFromNow(E, id) ==
    LET item == getQueueItem(E.queue, id)
        snoozedUntil == now + SNOOZE_MINUTES * MsPerMinute
    IN  IF ~Has(E.queue, id) THEN E
        ELSE scheduleJobAt(Patch(E, id, [status |-> "snoozed",
                                         snoozeCount |-> item.snoozeCount + 1,
                                         scheduledFor |-> snoozedUntil]), id, snoozedUntil)

snoozeItem(E, id) ==
    LET item == getQueueItem(E.queue, id)
        base == IF item.scheduledFor # Null /\ item.scheduledFor > now
                THEN item.scheduledFor ELSE now
        snoozedUntil == base + SNOOZE_MINUTES * MsPerMinute
    IN  IF ~Has(E.queue, id) THEN E
        ELSE scheduleJobAt(Patch(E, id, [status |-> "snoozed",
                                         snoozeCount |-> item.snoozeCount + 1,
                                         scheduledFor |-> snoozedUntil]), id, snoozedUntil)

\* the loop of reconcileOnStartup over the newest-first queue: i runs from
\* the highest id down; st collects the setTimeout due times
\* a reconciliation that skips only deleted and failed entities
RECURSIVE ReconcileWhitelistedToo(_, _, _, _)
ReconcileWhitelistedToo(E, st, i, overdueDelay) ==
    IF i = 0 THEN [E |-> E, stagger |-> st]
    ELSE LET item == E.queue[i]
         IN  IF ~Has(E.queue, i) \/ item.status \in {"deleted", "failed"}
             THEN ReconcileWhitelistedToo(E, st, i - 1, overdueDelay)
             ELSE IF item.scheduledFor > now
             THEN ReconcileWhitelistedToo(scheduleJobAt(E, i, item.scheduledFor), st,
                                          i - 1, overdueDelay)
             ELSE ReconcileWhitelistedToo(E, [st EXCEPT ![i] = now + overdueDelay], i - 1,
                                          overdueDelay + OVERDUE_STAGGER_MS)

RECURSIVE ReconcileFrom(_, _, _, _)
ReconcileFrom(E, st, i, overdueDelay) ==
    IF i = 0 THEN [E |-> E, stagger |-> st]
    ELSE LET item == E.queue[i]
         IN  IF ~Has(E.queue, i) \/ item.status \in {"deleted", "failed", "whitelisted"}
                \/ item.scheduledFor = Null
             THEN ReconcileFrom(E, st, i - 1, overdueDelay)
             ELSE IF item.scheduledFor > now
             THEN ReconcileFrom(scheduleJobAt(E, i, item.scheduledFor), st, i - 1, overdueDelay)
             ELSE ReconcileFrom(E, [st EXCEPT ![i] = now + overdueDelay], i - 1,
                                overdueDelay + OVERDUE_STAGGER_MS)

\* a reconciliation whose first overdue entity already waits one step
reconcileOnStartupLate(E, st) == ReconcileFrom(E, st, MaxItems, OVERDUE_STAGGER_MS)

reconcileOnStartup(E, st) == ReconcileFrom(E, st, MaxItems, 0)

RECURSIVE CancelEach(_, _)
CancelEach(E, S) ==
    IF S = {} THEN E
    ELSE LET i == Min(S) IN CancelEach(JobsDelete(CancelJob(E, i), i), S \ {i})

RECURSIVE KeepEach(_, _)
KeepEach(E, S) ==
    IF S = {} THEN E
    ELSE LET i == Min(S) IN KeepEach(resolveConfirmation(E, i, "keep", "quit"), S \ {i})

cancelAllJobs(E) ==
    KeepEach(CancelEach(E, {i \in Ids : E.jobs[i] # 0}), {i \in Ids : E.pend[i] # 0})

\* ------------------------------------------------------------------ watcher
Inodes == 1..MaxItems

\* handleFileUnlinked for a tracked path: arm the rename-window timer and
\* record the inode (Map.set replaces an entry without clearing its timer)
handleFileUnlinked(q, r, ut, p) ==
    LET id == FindActiveByPath(q, p)
        t  == [id |-> id, ino |-> q[id].inode, due |-> now + RENAME_WINDOW_MS]
    IN  IF id = 0 THEN [ru |-> r, utimers |-> ut]
        ELSE [ru |-> [r EXCEPT ![t.ino] = [itemId |-> id, due |-> t.due]],
              utimers |-> ut \cup {t}]

\* the expiry callback: _cancelJobFn(item.id), then status deleted
unlinkExpired(E, t) ==
    Patch(cancelItem(E, t.id), t.id, [status |-> "deleted", scheduledFor |-> Null])

NoBurst == [n |-> 0, first |-> Null, last |-> Null]

\* no raw unlink of a tracked entity with this inode is unreconciled
NoUnlink == [id |-> 0, at |-> Null]

\* the pending timer left running instead of being restarted
armDebounceOnce(db, p) == IF db[p] # Null THEN db ELSE [db EXCEPT ![p] = now + DEBOUNCE_MS]

\* watcher.on("add"): clearTimeout of the pending timer, then a new one
armDebounce(db, p) == [db EXCEPT ![p] = now + DEBOUNCE_MS]

\* an unlink that leaves the path's pending timer running
keepDebounce(db, p) == db

\* handleFileUnlinked: a pending debounce of the path is dropped
clearDebounce(db, p) == [db EXCEPT ![p] = Null]

\* matchWhitelistRule returning null
NoRule == [action |-> "none", minutes |-> Null]

\* the extension and the base name of every watched file, lower-cased, and a
\* second value no file has
FileExt  == 1
FileBase == 2
RuleValues == {FileExt, FileBase}

\* a WhitelistRule: type, value (lower-cased), action, autoDeleteMinutes, enabled
Rule(ty, v, act, m, en) ==
    [type |-> ty, value |-> v, action |-> act, minutes |-> m, enabled |-> en]

\* settings.whitelistRules as the user can have set them up
RuleLists ==
    LET nd  == Rule("extension", FileExt, "never-delete", Null, TRUE)
        ad  == Rule("filename", FileBase, "auto-delete-after", SNOOZE_MINUTES, TRUE)
        adn == Rule("extension", FileExt, "auto-delete-after", Null, TRUE)
        off == Rule("extension", FileExt, "never-delete", Null, FALSE)
        oth == Rule("extension", FileBase, "never-delete", Null, TRUE)
        pat == Rule("pattern", FileExt, "never-delete", Null, TRUE)
    IN  {<<>>, <<nd>>, <<ad>>, <<adn>>, <<off, ad>>, <<oth, pat>>, <<ad, nd>>,
         <<pat, nd, ad>>}

\* the rule ignoring its enabled flag
RECURSIVE matchWhitelistRuleAnyState(_)
matchWhitelistRuleAnyState(rules) ==
    IF rules = <<>> THEN NoRule
    ELSE LET rule == Head(rules)
         IN  IF rule.type = "extension" /\ FileExt = rule.value
             THEN [action |-> rule.action, minutes |-> rule.minutes]
             ELSE IF rule.type = "filename" /\ FileBase = rule.value
             THEN [action |-> rule.action, minutes |-> rule.minutes]
             ELSE matchWhitelistRuleAnyState(Tail(rules))

\* matchWhitelistRule(fileName, rules): the first enabled rule whose
\* extension or file name equals the file's
RECURSIVE matchWhitelistRule(_)
matchWhitelistRule(rules) ==
    IF rules = <<>> THEN NoRule
    ELSE LET rule == Head(rules)
         IN  IF ~rule.enabled THEN matchWhitelistRule(Tail(rules))
             ELSE IF rule.type = "extension" /\ FileExt = rule.value
             THEN [action |-> rule.action, minutes |-> rule.minutes]
             ELSE IF rule.type = "filename" /\ FileBase = rule.value
             THEN [action |-> rule.action, minutes |-> rule.minutes]
             ELSE matchWhitelistRule(Tail(rules))

\* fs.statSync(...).size
Sizes == {1, 2}

\* the QueueItem handleNewFile builds; fileName and fileExtension are
\* functions of filePath
NewItem(p, ino, size) ==
    [status |-> "pending", scheduledFor |-> Null, snoozeCount |-> 0,
     error |-> "", filePath |-> p, inode |-> ino, fileSize |-> size]

\* upsertQueueItem of an item with a fresh id: queue.unshift(item)
upsertQueueItem(q, id, item) == [q EXCEPT ![id] = item]

\* a rename match that re-registers the entity as freshly detected
handleNewFileResetsOnRename(q, r, ut, u, fs, p, size, rules) ==
    LET same  == [queue |-> q, ru |-> r, utimers |-> ut, used |-> u, sent |-> <<>>]
        rule  == matchWhitelistRule(rules)
        ino   == fs[p]
        entry == r[ino]
        item  == NewItem(p, ino, size)
        new(it, evs) == [queue |-> upsertQueueItem(q, u + 1, it), ru |-> r,
                         utimers |-> ut, used |-> u + 1, sent |-> evs]
    IN  IF FindActiveByPath(q, p) # 0 THEN same
        ELSE IF ino = 0 THEN same
        ELSE IF entry # NoEntry
        THEN [queue   |-> upsertQueueItem(q, entry.itemId, item),
              ru      |-> [r EXCEPT ![ino] = NoEntry],
              utimers |-> {t \in ut : ~(t.ino = ino /\ t.id = entry.itemId
                                                   /\ t.due = entry.due)},
              used    |-> u,
              sent    |-> <<"QUEUE_UPDATED">>]
        ELSE IF rule.action = "never-delete"
        THEN new([item EXCEPT !.status = "whitelisted"], <<"QUEUE_UPDATED">>)
        ELSE IF rule.action = "auto-delete-after" /\ rule.minutes # Null
        THEN new([item EXCEPT !.status = "scheduled",
                              !.scheduledFor = now + rule.minutes * MsPerMinute],
                 <<"FILE_NEW">>)
        ELSE new(item, <<"FILE_NEW">>)

\* handleNewFile(p): fs is the folder, size what statSync reports, rules the
\* settings' whitelistRules; u is the number of ids handed out; sent are the
\* events sent to the renderer
handleNewFile(q, r, ut, u, fs, p, size, rules) ==
    LET same  == [queue |-> q, ru |-> r, utimers |-> ut, used |-> u, sent |-> <<>>]
        rule  == matchWhitelistRule(rules)
        ino   == fs[p]
        entry == r[ino]
        item  == NewItem(p, ino, size)
        new(it, evs) == [queue |-> upsertQueueItem(q, u + 1, it), ru |-> r,
                         utimers |-> ut, used |-> u + 1, sent |-> evs]
    IN  IF FindActiveByPath(q, p) # 0 THEN same
        ELSE IF ino = 0 THEN same
        ELSE IF entry # NoEntry
        THEN [queue   |-> patchQueueItem(q, entry.itemId,
                                         [filePath |-> p, fileSize |-> size]),
              ru      |-> [r EXCEPT ![ino] = NoEntry],
              utimers |-> {t \in ut : ~(t.ino = ino /\ t.id = entry.itemId
                                                   /\ t.due = entry.due)},
              used    |-> u,
              sent    |-> <<"QUEUE_UPDATED">>]
        ELSE IF rule.action = "never-delete"
        THEN new([item EXCEPT !.status = "whitelisted"], <<"QUEUE_UPDATED">>)
        ELSE IF rule.action = "auto-delete-after" /\ rule.minutes # Null
        THEN new([item EXCEPT !.status = "scheduled",
                              !.scheduledFor = now + rule.minutes * MsPerMinute],
                 <<"FILE_NEW">>)
        ELSE new(item, <<"FILE_NEW">>)

\* handleFileChanged(p): the tracked item's fileSize follows statSync
handleFileChanged(q, fs, p, size) ==
    LET id == FindActiveByPath(q, p)
    IN  IF id = 0 \/ fs[p] = 0 \/ size = q[id].fileSize THEN q
        ELSE patchQueueItem(q, id, [fileSize |-> size])

\* ------------------------------------------------------------------ actions
NoEv == [op |-> "none", item |-> 0, found |-> FALSE, existed |-> FALSE,
         locked |-> FALSE, t2fail |-> FALSE, matched |-> FALSE,
         trashed |-> FALSE, decision |-> "none", via |-> "none",
         ok |-> FALSE, snooze |-> 0, calls |-> 0, threw |-> FALSE,
         asked |-> FALSE, since |-> Null, path |-> 0, kind |-> "none",
         pre |-> Absent, prejob |-> 0, adds |-> 0, first |-> Null,
         last |-> Null, gone |-> NoUnlink, preused |-> 0, q0 |-> <<>>,
         jobs0 |-> <<>>, pend0 |-> <<>>, rules |-> <<>>, sent |-> <<>>]

\* a file that leaves its path takes the report of its add with it
Forget(rp, fs) == [p \in Paths |-> IF fs[p] = rp[p] THEN rp[p] ELSE 0]

Commit(E) ==
    /\ queue'   = E.queue
    /\ fsys'    = E.fsys
    /\ jobs'    = E.jobs
    /\ sched'   = E.sched
    /\ pend'    = E.pend
    /\ ctimer'  = E.ctimer
    /\ firings' = E.firings
    /\ unlinkQ' = E.unlinkQ
    /\ kept'    = E.kept
    /\ cancelled' = E.cancelled
    /\ reported' = Forget(reported, E.fsys)
    /\ dialogs' = E.dialogs

Running == phase = "running"

\* probe outcomes tried at a firing
T1Fire == {in \in T1Inputs : in.status # 2 /\ (in.r3 => in.r1 /\ ~in.r2)
                             /\ (in.r2 => in.r1) /\ (in.err => in.status = 0)
                             /\ (~in.err => in.r1 /\ in.r2)}
T2Fire == {in \in T2Inputs : in.out \in {<<>>, <<7>>} /\ (in.err => in.status = 1)}

\* the folder whose files the model follows, and another one the user can
\* point the watcher at
HomeFolder == 1
Folders    == {1, 2}
MaxSessions == 3

\* the watcher module's state
Watch == [watchers |-> watchers, debounce |-> debounce, ru |-> ru,
          utimers |-> utimers, unlinkQ |-> unlinkQ, burst |-> burst]

\* the expiry timer recentlyUnlinkedByInode holds for inode n
EntryTimer(r, n) == [id |-> r[n].itemId, ino |-> n, due |-> r[n].due]

\* stopWatcher: close `watcher`, clearTimeout over both maps' values, clear
\* both maps (a timer no map entry refers to any more is not reached)
stopWatcher(W) ==
    LET n    == Len(W.watchers)
        all  == IF n = 0 THEN W.watchers ELSE [W.watchers EXCEPT ![n].open = FALSE]
        left == \E k \in 1..n : all[k].open
    IN  [watchers |-> all,
         debounce |-> [p \in Paths |-> Null],
         ru       |-> [i \in Inodes |-> NoEntry],
         utimers  |-> W.utimers \ {EntryTimer(W.ru, i) : i \in Inodes},
         unlinkQ  |-> IF left THEN W.unlinkQ ELSE {},
         burst    |-> [p \in Paths |-> NoBurst]]

\* startWatcher(win, settings): stopWatcher(), then a new chokidar instance
startWatcher(W, folder) ==
    LET W1 == stopWatcher(W)
    IN  [W1 EXCEPT !.watchers = Append(@, [folder |-> folder, since |-> now,
                                           open |-> TRUE])]

\* the open chokidar instances
OpenWatchers == {k \in 1..Len(watchers) : watchers[k].open}

\* some open chokidar instance reports the events of the home folder
Watching == \E k \in OpenWatchers : watchers[k].folder = HomeFolder

\* app.whenReady: reconcileOnStartup, then startWatcher
Boot ==
    /\ phase = "boot"
    /\ LET R == reconcileOnStartup(Cur, stagger)
       IN  Commit(R.E) /\ stagger' = R.stagger
    /\ phase' = "running"
    /\ watchers' = startWatcher(Watch, HomeFolder).watchers
    /\ ev' = [NoEv EXCEPT !.op = "boot", !.q0 = queue]
    /\ UNCHANGED <<now, ru, utimers, lockRun, ncmd, probe, debounce, used, burst, unlinked>>

\* the body shared by the two ways a firing sequence starts
Fire(E0, id, src) ==
    /\ FreeSlots(E0) # {}
    /\ FreeHandles(CancelJob(E0, id)) # {}
    /\ \E t1 \in T1Fire, t2 \in T2Fire :
          LET E1     == attemptDeletion(E0, id, t1, t2)
              found  == Has(E0.queue, id)
              exists == found /\ E0.fsys[E0.queue[id].filePath] # 0
              locked == exists /\ isFileLocked(t1)
              probed == exists /\ ~locked
          IN  /\ Commit(E1)
              /\ ev' = [NoEv EXCEPT !.op = src, !.item = id, !.found = found,
                          !.existed = exists, !.locked = locked,
                          !.t2fail = probed /\ (t2.err \/ t2.status # 0),
                          !.matched = probed /\ Len(isFileInWindowTitle(t2)) > 0,
                          !.trashed = id \in E1.trashed,
                          !.asked = E1.ctimer # E0.ctimer,
                          !.snooze = E0.queue[id].snoozeCount]
              /\ lockRun' = [lockRun EXCEPT ![id] =
                               IF locked /\ @ # Null /\ @ < 4 THEN @ + 1 ELSE Null]

\* a node-schedule job comes due and calls attemptDeletion
JobFire(h) ==
    /\ Running
    /\ sched[h] # NoJob /\ sched[h].at <= now
    /\ LET id == sched[h].item
       IN  Fire([Cur EXCEPT !.sched[h] = NoJob,
                            !.jobs[id] = IF @ = h THEN Dead ELSE @], id, "job")
    /\ UNCHANGED <<now, phase, watchers, stagger, ru, utimers, ncmd, probe, debounce, used, burst, unlinked>>

\* a staggered setTimeout of reconcileOnStartup calls attemptDeletion
StaggerFire(i) ==
    /\ Running
    /\ stagger[i] # Null /\ stagger[i] <= now
    /\ stagger' = [stagger EXCEPT ![i] = Null]
    /\ Fire(Cur, i, "stagger")
    /\ UNCHANGED <<now, phase, watchers, ru, utimers, ncmd, probe, debounce, used, burst, unlinked>>

\* the 15 s timer of waitForConfirmation runs out
ConfirmTimeout(f) ==
    /\ Running
    /\ ctimer[f] # Null /\ ctimer[f] <= now
    /\ LET fr == firings[f]
           E1 == RunMicrotasks(confirmTimeout(Cur, f))
       IN  /\ Commit(E1)
           /\ ev' = [NoEv EXCEPT !.op = "timeout", !.item = fr.item, !.found = TRUE,
                       !.existed = fr.existed, !.locked = fr.locked,
                       !.matched = fr.matched, !.decision = "delete",
                       !.via = "timeout", !.trashed = fr.item \in E1.trashed,
                       !.since = fr.startedAt,
                       !.calls = E1.firings[f].trashCalls]
           /\ lockRun' = [lockRun EXCEPT ![fr.item] = Null]
    /\ UNCHANGED <<now, phase, watchers, stagger, ru, utimers, ncmd, probe, debounce, used, burst, unlinked>>

\* IPC FILE_CONFIRM_RESPONSE
ConfirmResponse(i, d) ==
    /\ Running /\ ncmd < MaxCommands
    /\ LET f  == pend[i]
           fr == IF f = 0 THEN FreeFrame ELSE firings[f]
           E1 == RunMicrotasks(resolveConfirmation(Cur, i, d, "user"))
       IN  /\ Commit(E1)
           /\ ev' = [NoEv EXCEPT !.op = "response", !.item = i, !.found = f # 0,
                       !.existed = fr.existed, !.locked = fr.locked,
                       !.matched = fr.matched,
                       !.decision = IF f = 0 THEN "none" ELSE d,
                       !.via = IF f = 0 THEN "none" ELSE "user",
                       !.trashed = i \in E1.trashed]
    /\ lockRun' = [lockRun EXCEPT ![i] = Null]
    /\ ncmd' = ncmd + 1
    /\ UNCHANGED <<now, phase, watchers, stagger, ru, utimers, probe, debounce, used, burst, unlinked>>

\* the promise of _trash settles
TrashDone(f, ok, notif) ==
    /\ Running
    /\ firings[f].pc = "trash"
    /\ FreeHandles(CancelJob(Cur, firings[f].item)) # {}
    /\ LET fr == firings[f]
           E1 == AfterTrash(Cur, f, ok, notif)
       IN  /\ Commit(E1)
           /\ ev' = [NoEv EXCEPT !.op = "trashDone", !.item = fr.item, !.ok = ok,
                       !.via = fr.via, !.calls = fr.trashCalls,
                       !.matched = fr.matched, !.snooze = fr.snooze,
                       !.threw = ~ok /\ SnoozeNotifyThrows(Cur, fr.item, notif)
                                 /\ (fr.snooze + 1 <= MAX_SNOOZE_COUNT)]
           /\ lockRun' = [lockRun EXCEPT ![fr.item] = Null]
    /\ UNCHANGED <<now, phase, watchers, stagger, ru, utimers, ncmd, probe, debounce, used, burst, unlinked>>

\* IPC FILE_SET_TIMER (answers "Item not found" for an unknown id)
SetTimer(i, minutes) ==
    /\ Running /\ ncmd < MaxCommands
    /\ Has(queue, i)
    /\ FreeHandles(CancelJob(Cur, i)) # {}
    /\ Commit([scheduleItem(Cur, i, minutes) EXCEPT !.kept[i] = FALSE, !.cancelled[i] = FALSE])
    /\ ev' = [NoEv EXCEPT !.op = "setTimer", !.item = i, !.found = TRUE,
                !.snooze = queue[i].snoozeCount]
    /\ lockRun' = [lockRun EXCEPT ![i] = Null]
    /\ ncmd' = ncmd + 1
    /\ UNCHANGED <<now, phase, watchers, stagger, ru, utimers, probe, debounce, used, burst, unlinked>>

\* IPC FILE_CANCEL
Cancel(i) ==
    /\ Running /\ ncmd < MaxCommands
    /\ LET E1 == RunMicrotasks(cancelItem(Cur, i))
       IN  /\ Commit(E1)
           /\ ev' = [NoEv EXCEPT !.op = "cancel", !.item = i, !.found = Has(queue, i),
                       !.trashed = i \in E1.trashed]
    /\ lockRun' = [lockRun EXCEPT ![i] = Null]
    /\ ncmd' = ncmd + 1
    /\ UNCHANGED <<now, phase, watchers, stagger, ru, utimers, probe, debounce, used, burst, unlinked>>

\* IPC FILE_SNOOZE
Snooze(i) ==
    /\ Running /\ ncmd < MaxCommands
    /\ FreeHandles(CancelJob(Cur, i)) # {}
    /\ Commit([snoozeItem(Cur, i) EXCEPT !.kept[i] = FALSE, !.cancelled[i] = FALSE])
    /\ ev' = [NoEv EXCEPT !.op = "snooze", !.item = i, !.found = Has(queue, i),
                !.snooze = queue[i].snoozeCount]
    /\ lockRun' = [lockRun EXCEPT ![i] = Null]
    /\ ncmd' = ncmd + 1
    /\ UNCHANGED <<now, phase, watchers, stagger, ru, utimers, probe, debounce, used, burst, unlinked>>

\* IPC FILE_REMOVE
Remove(i) ==
    /\ Running /\ ncmd < MaxCommands
    /\ Has(queue, i)
    /\ Commit([Cur EXCEPT !.queue = removeQueueItem(queue, i)])
    /\ ev' = [NoEv EXCEPT !.op = "remove", !.item = i, !.found = TRUE]
    /\ lockRun' = [lockRun EXCEPT ![i] = Null]
    /\ ncmd' = ncmd + 1
    /\ UNCHANGED <<now, phase, watchers, stagger, ru, utimers, probe, debounce, used, burst, unlinked>>

\* the file at path p is deleted or moved away outside the application
ExternalRemove(p) ==
    /\ Running /\ ncmd < MaxCommands
    /\ fsys[p] # 0
    /\ fsys' = [fsys EXCEPT ![p] = 0]
    /\ unlinkQ' = unlinkQ \cup {p}
    /\ ev' = [NoEv EXCEPT !.op = "rmfile", !.item = p]
    /\ ncmd' = ncmd + 1
    /\ UNCHANGED <<now, phase, watchers, queue, jobs, sched, stagger, pend, ctimer, firings,
                   ru, utimers, kept, cancelled, lockRun, probe, debounce, used, burst, unlinked>>
    /\ reported' = Forget(reported, fsys')
    /\ UNCHANGED dialogs

\* chokidar delivers a raw unlink event
Unlink(p) ==
    /\ Running /\ Watching
    /\ p \in unlinkQ
    /\ unlinkQ' = unlinkQ \ {p}
    /\ LET R == handleFileUnlinked(queue, ru, utimers, p)
       IN  ru' = R.ru /\ utimers' = R.utimers
    /\ debounce' = clearDebounce(debounce, p)
    /\ burst' = [burst EXCEPT ![p] = NoBurst]
    /\ LET id == FindActiveByPath(queue, p)
       IN  unlinked' = IF id = 0 THEN unlinked
                       ELSE [unlinked EXCEPT ![queue[id].inode] = [id |-> id, at |-> now]]
    /\ ev' = [NoEv EXCEPT !.op = "unlink", !.item = FindActiveByPath(queue, p),
                !.path = p, !.adds = burst[p].n]
    /\ UNCHANGED <<now, phase, watchers, queue, fsys, jobs, sched, stagger, pend, ctimer,
                   firings, kept, cancelled, lockRun, ncmd, probe, used, reported, dialogs>>

\* a rename-window timer runs out
UnlinkExpire(t) ==
    /\ Running
    /\ t \in utimers /\ t.due <= now
    /\ utimers' = utimers \ {t}
    /\ ru' = [ru EXCEPT ![t.ino] = NoEntry]
    /\ LET E1 == RunMicrotasks(unlinkExpired(Cur, t))
       IN  /\ Commit(E1)
           /\ ev' = [NoEv EXCEPT !.op = "expire", !.item = t.id,
                       !.found = Has(queue, t.id), !.trashed = t.id \in E1.trashed]
    /\ lockRun' = [lockRun EXCEPT ![t.id] = Null]
    /\ UNCHANGED <<now, phase, watchers, stagger, ncmd, probe, debounce, used, burst, unlinked>>

\* the deadline the displayed dialog's 100 ms interval counts down to
DialogDue ==
    IF dialogs.queue # <<>> /\ ~dialogs.responded
    THEN {Head(dialogs.queue).deadline} ELSE {}

\* every armed timer's due time
DueTimes ==
    {sched[h].at : h \in {x \in Handles : sched[x] # NoJob}}
      \cup {stagger[i] : i \in {x \in Ids : stagger[x] # Null}}
      \cup {ctimer[f] : f \in {x \in Slots : ctimer[x] # Null}}
      \cup {t.due : t \in utimers}
      \cup {debounce[p] : p \in {x \in Paths : debounce[x] # Null}}
      \cup DialogDue

\* the clock moves to the next due time once every due timer has run
Tick(limit) ==
    /\ Running
    /\ DueTimes # {}
    /\ \A d \in DueTimes : d > now
    /\ Min(DueTimes) <= limit
    /\ now' = Min(DueTimes)
    /\ ev' = [NoEv EXCEPT !.op = "tick"]
    /\ UNCHANGED <<phase, watchers, queue, fsys, jobs, sched, stagger, pend, ctimer, firings,
                   unlinkQ, ru, utimers, kept, cancelled, lockRun, ncmd, probe, debounce, used, burst, unlinked, reported, dialogs>>

\* app.on("before-quit"): cancelAllJobs, stopWatcher
Quit ==
    /\ Running
    /\ LET E1 == RunMicrotasks(cancelAllJobs(Cur))
       IN  /\ Commit([E1 EXCEPT !.unlinkQ = {}])
           /\ ev' = [NoEv EXCEPT !.op = "quit", !.trashed = E1.trashed # {},
                       !.jobs0 = jobs, !.pend0 = pend]
    /\ LET W == stopWatcher(Watch)
       IN  /\ watchers' = W.watchers /\ ru' = W.ru /\ utimers' = W.utimers
           /\ debounce' = W.debounce
    /\ phase' = "quit"
    /\ UNCHANGED <<now, stagger, lockRun, ncmd, probe, used, burst, unlinked>>

\* the engine's variables, which the watcher's own handlers leave alone
EngineVars == <<jobs, sched, stagger, pend, ctimer, firings, kept, cancelled, lockRun, probe>>

WatchPaths  == 1..MaxWatchPaths
WatchInodes == 1..MaxWatchPaths
WatchOps    == ncmd < MaxWatchOps

\* a file appears at a free path of the watched folder (a download, a
\* copy, or with an inode already present a hard link)
ExternalCreate(p, n) ==
    /\ Running /\ WatchOps
    /\ fsys[p] = 0
    /\ fsys' = [fsys EXCEPT ![p] = n]
    /\ ev' = [NoEv EXCEPT !.op = "mkfile", !.path = p]
    /\ ncmd' = ncmd + 1
    /\ UNCHANGED <<now, phase, watchers, queue, unlinkQ, ru, utimers, debounce, used, burst, unlinked, reported, dialogs>>
    /\ UNCHANGED EngineVars

\* the file at p is renamed to the free path q inside the watched folder
ExternalRename(p, q) ==
    /\ Running /\ WatchOps
    /\ fsys[p] # 0 /\ fsys[q] = 0
    /\ fsys' = [fsys EXCEPT ![q] = fsys[p], ![p] = 0]
    /\ unlinkQ' = unlinkQ \cup {p}
    /\ ev' = [NoEv EXCEPT !.op = "mvfile", !.path = q]
    /\ ncmd' = ncmd + 1
    /\ reported' = Forget(reported, fsys')
    /\ UNCHANGED dialogs
    /\ UNCHANGED <<now, phase, watchers, queue, ru, utimers, debounce, used, burst, unlinked>>
    /\ UNCHANGED EngineVars

\* chokidar delivers a raw add event for the file at p (after the unlink of
\* whatever was at p before: one path's events come in the order they happened)
RawAdd(p) ==
    /\ Running /\ WatchOps /\ Watching
    /\ fsys[p] # 0 /\ p \notin unlinkQ
    /\ debounce' = armDebounce(debounce, p)
    /\ burst' = [burst EXCEPT ![p] = [n     |-> IF @.n < 2 THEN @.n + 1 ELSE 2,
                                      first |-> IF @.n = 0 THEN now ELSE @.first,
                                      last  |-> now]]
    /\ ev' = [NoEv EXCEPT !.op = "add", !.path = p]
    /\ ncmd' = ncmd + 1
    /\ reported' = [reported EXCEPT ![p] = fsys[p]]
    /\ UNCHANGED dialogs
    /\ UNCHANGED <<now, phase, watchers, queue, fsys, unlinkQ, ru, utimers, used, unlinked>>
    /\ UNCHANGED EngineVars

\* a debounce timer runs out: debounceTimers.delete(p); handleNewFile(p)
DebounceFire(p) ==
    /\ Running
    /\ debounce[p] # Null /\ debounce[p] <= now
    /\ debounce' = [debounce EXCEPT ![p] = Null]
    /\ burst' = [burst EXCEPT ![p] = NoBurst]
    /\ \E size \in Sizes, rules \in RuleLists :
          LET R    == handleNewFile(queue, ru, utimers, used, fsys, p, size, rules)
              old  == FindActiveByPath(queue, p)
              ent  == IF fsys[p] = 0 THEN NoEntry ELSE ru[fsys[p]]
              kind == IF old # 0 THEN "tracked"
                      ELSE IF fsys[p] = 0 THEN "gone"
                      ELSE IF ent # NoEntry THEN "rename" ELSE "new"
              id   == IF kind = "rename" THEN ent.itemId
                      ELSE IF kind = "new" THEN used + 1 ELSE old
          IN  /\ (kind = "new" => used < MaxItems)
              /\ queue' = R.queue /\ ru' = R.ru /\ utimers' = R.utimers
              /\ used' = R.used
              /\ unlinked' = IF kind = "rename"
                              THEN [unlinked EXCEPT ![fsys[p]] = NoUnlink]
                              ELSE unlinked
              /\ ev' = [NoEv EXCEPT !.op = "newFile", !.path = p, !.kind = kind,
                          !.gone = IF fsys[p] = 0 THEN NoUnlink ELSE unlinked[fsys[p]],
                          !.preused = used,
                          !.rules = rules, !.sent = R.sent,
                          !.item = id, !.adds = burst[p].n, !.first = burst[p].first,
                          !.last = burst[p].last,
                          !.pre = IF id \in Ids /\ kind # "new" THEN queue[id] ELSE Absent,
                          !.prejob = IF id \in Ids THEN jobs[id] ELSE 0]
    /\ UNCHANGED <<now, phase, watchers, fsys, unlinkQ, ncmd, reported, dialogs>>
    /\ UNCHANGED EngineVars

\* chokidar delivers a raw change event for the file at p
Change(p) ==
    /\ Running /\ WatchOps /\ Watching
    /\ fsys[p] # 0
    /\ \E size \in Sizes : queue' = handleFileChanged(queue, fsys, p, size)
    /\ ev' = [NoEv EXCEPT !.op = "change", !.path = p,
                !.item = FindActiveByPath(queue, p)]
    /\ ncmd' = ncmd + 1
    /\ UNCHANGED <<now, phase, watchers, fsys, unlinkQ, ru, utimers, debounce, used, burst, unlinked,
                   reported, dialogs>>
    /\ UNCHANGED EngineVars

\* IPC SETTINGS_UPDATE with a downloads folder other than the current one:
\* stopWatcher(); startWatcher(mainWindow, updated)
SettingsUpdate(folder) ==
    /\ Running
    /\ watchers # <<>> /\ Len(watchers) < MaxSessions
    /\ folder # watchers[Len(watchers)].folder
    /\ LET W == startWatcher(stopWatcher(Watch), folder)
       IN  /\ watchers' = W.watchers /\ debounce' = W.debounce /\ ru' = W.ru
           /\ utimers' = W.utimers /\ unlinkQ' = W.unlinkQ /\ burst' = W.burst
    /\ ev' = [NoEv EXCEPT !.op = "settings"]
    /\ UNCHANGED <<now, phase, queue, fsys, ncmd, used, unlinked, reported, dialogs>>
    /\ UNCHANGED EngineVars

\* time passes with no timer coming due
Delays == {400, 2600}

Wait(d) ==
    /\ Running /\ WatchOps
    /\ \A t \in DueTimes : now + d <= t
    /\ now + d <= BootTime + WatchSpan
    /\ now' = now + d
    /\ ev' = [NoEv EXCEPT !.op = "wait"]
    /\ ncmd' = ncmd + 1
    /\ UNCHANGED <<phase, watchers, queue, fsys, unlinkQ, ru, utimers, debounce, used, burst, unlinked, reported, dialogs>>
    /\ UNCHANGED EngineVars

\* ------------------------------------------------------------ specification
PastDeadline   == BootTime - MsPerMinute
FutureDeadline == BootTime + SNOOZE_MINUTES * MsPerMinute

\* a persisted entity as an earlier session can have left it
InitItem(i) ==
    {[status |-> "pending", scheduledFor |-> Null, snoozeCount |-> 0,
      error |-> "", filePath |-> i, inode |-> i, fileSize |-> 1],
     [status |-> "scheduled", scheduledFor |-> PastDeadline, snoozeCount |-> 0,
      error |-> "", filePath |-> i, inode |-> i, fileSize |-> 1],
     [status |-> "scheduled", scheduledFor |-> FutureDeadline, snoozeCount |-> 0,
      error |-> "", filePath |-> i, inode |-> i, fileSize |-> 1]}

NoProbe == [fn |-> "none", in |-> 0, done |-> FALSE, out |-> FALSE]

InitEngine ==
    /\ now = BootTime
    /\ phase = "boot"
    /\ watchers = <<>>
    /\ queue \in {q \in [Ids -> UNION {InitItem(i) : i \in Ids} \cup {Absent}] :
                     \A i \in Ids : IF i <= NumItems THEN q[i] \in InitItem(i)
                                                       ELSE q[i] = Absent}
    /\ fsys = [p \in Paths |-> IF p <= NumItems THEN p ELSE 0]
    /\ debounce = [p \in Paths |-> Null]
    /\ used = NumItems
    /\ burst = [p \in Paths |-> NoBurst]
    /\ unlinked = [n \in Inodes |-> NoUnlink]
    /\ reported = [p \in Paths |-> 0]
    /\ jobs = [i \in Ids |-> 0]
    /\ sched = [h \in Handles |-> NoJob]
    /\ stagger = [i \in Ids |-> Null]
    /\ pend = [i \in Ids |-> 0]
    /\ ctimer = [f \in Slots |-> Null]
    /\ firings = [f \in Slots |-> FreeFrame]
    /\ unlinkQ = {}
    /\ ru = [n \in Inodes |-> NoEntry]
    /\ utimers = {}
    /\ ev = NoEv
    /\ kept = [i \in Ids |-> FALSE]
    /\ cancelled = [i \in Ids |-> FALSE]
    /\ lockRun = [i \in Ids |-> 0]
    /\ ncmd = 0
    /\ dialogs = NoDialogs

Init == InitEngine /\ probe = NoProbe

Next ==
    \/ Boot
    \/ \E h \in Handles : JobFire(h)
    \/ \E i \in Ids : StaggerFire(i)
    \/ \E f \in Slots : ConfirmTimeout(f)
    \/ \E i \in CmdIds, d \in {"delete", "keep"} : ConfirmResponse(i, d)
    \/ \E f \in Slots, ok \in BOOLEAN, notif \in BOOLEAN : TrashDone(f, ok, notif)
    \/ \E i \in CmdIds, m \in MinuteChoices : SetTimer(i, m)
    \/ \E i \in CmdIds : Cancel(i)
    \/ \E i \in CmdIds : Snooze(i)
    \/ \E i \in CmdIds : Remove(i)
    \/ \E p \in Paths : ExternalRemove(p)
    \/ \E p \in Paths : Unlink(p)
    \/ \E t \in utimers : UnlinkExpire(t)
    \/ Tick(MaxTime)
    \/ Quit

Spec == Init /\ [][Next]_vars

\* the application left alone: timers, I/O completions and watcher events only
NextAuto ==
    \/ Boot
    \/ \E h \in Handles : JobFire(h)
    \/ \E i \in Ids : StaggerFire(i)
    \/ \E f \in Slots : ConfirmTimeout(f)
    \/ \E f \in Slots, ok \in BOOLEAN, notif \in BOOLEAN : TrashDone(f, ok, notif)
    \/ \E p \in Paths : Unlink(p)
    \/ \E t \in utimers : UnlinkExpire(t)
    \/ Tick(LongTime)

SpecAuto == Init /\ [][NextAuto]_vars

\* the two probes on their own, over every outcome of spawnSync and renameSync
ProbeCalls ==
    {[fn |-> "isFileLocked", in |-> x, done |-> FALSE, out |-> FALSE] : x \in T1Inputs}
      \cup {[fn |-> "isFileInWindowTitle", in |-> x, done |-> FALSE, out |-> <<>>] :
                x \in T2Inputs}

InitProbe == InitEngine /\ probe \in ProbeCalls

ProbeLock ==
    /\ probe.fn = "isFileLocked" /\ ~probe.done
    /\ probe' = [probe EXCEPT !.done = TRUE, !.out = isFileLocked(probe.in)]
    /\ UNCHANGED <<now, phase, watchers, queue, fsys, jobs, sched, stagger, pend, ctimer, firings,
                   unlinkQ, ru, utimers, ev, kept, cancelled, lockRun, ncmd, debounce, used, burst, unlinked, reported, dialogs>>

ProbeTitle ==
    /\ probe.fn = "isFileInWindowTitle" /\ ~probe.done
    /\ probe' = [probe EXCEPT !.done = TRUE, !.out = isFileInWindowTitle(probe.in)]
    /\ UNCHANGED <<now, phase, watchers, queue, fsys, jobs, sched, stagger, pend, ctimer, firings,
                   unlinkQ, ru, utimers, ev, kept, cancelled, lockRun, ncmd, debounce, used, burst, unlinked, reported, dialogs>>

NextProbe == ProbeLock \/ ProbeTitle

SpecProbe == InitProbe /\ [][NextProbe]_vars

\* the watcher at work on one persisted entity and the files of the folder
InitWatch == Init /\ queue[1].scheduledFor # PastDeadline

NextWatch ==
    \/ Boot
    \/ \E p \in WatchPaths, n \in WatchInodes : ExternalCreate(p, n)
    \/ \E p \in WatchPaths, q \in WatchPaths : ExternalRename(p, q)
    \/ \E p \in WatchPaths : WatchOps /\ ExternalRemove(p)
    \/ \E p \in WatchPaths : RawAdd(p)
    \/ \E p \in WatchPaths : DebounceFire(p)
    \/ \E p \in WatchPaths : Unlink(p)
    \/ \E t \in utimers : UnlinkExpire(t)
    \/ \E p \in WatchPaths : Change(p)
    \/ \E i \in Ids : WatchOps /\ Cancel(i)
    \/ \E i \in Ids : WatchOps /\ SetTimer(i, SNOOZE_MINUTES)
    \/ \E d \in Delays : Wait(d)
    \/ Tick(BootTime + WatchSpan)

SpecWatch == InitWatch /\ [][NextWatch]_vars

\* the watcher across restarts: file operations, raw events, timers and a
\* change of the downloads folder
NextSession ==
    \/ Boot
    \/ \E p \in WatchPaths, n \in WatchInodes : ExternalCreate(p, n)
    \/ \E p \in WatchPaths : WatchOps /\ ExternalRemove(p)
    \/ \E p \in WatchPaths : RawAdd(p)
    \/ \E p \in WatchPaths : DebounceFire(p)
    \/ \E p \in WatchPaths : Unlink(p)
    \/ \E t \in utimers : UnlinkExpire(t)
    \/ \E f \in Folders : SettingsUpdate(f)
    \/ \E d \in Delays : Wait(d)
    \/ Tick(BootTime + WatchSpan)

SpecSession == InitWatch /\ [][NextSession]_vars

\* firings and renames together: a file is moved inside the watched folder
\* while an attemptDeletion call of its entity is suspended
NextRename ==
    \/ Boot
    \/ \E i \in Ids : StaggerFire(i)
    \/ \E h \in Handles : JobFire(h)
    \/ \E f \in Slots : ConfirmTimeout(f)
    \/ \E i \in CmdIds, d \in {"delete", "keep"} : ConfirmResponse(i, d)
    \/ \E f \in Slots, ok \in BOOLEAN, notif \in BOOLEAN : TrashDone(f, ok, notif)
    \/ \E p \in WatchPaths, q \in WatchPaths : ExternalRename(p, q)
    \/ \E p \in WatchPaths : RawAdd(p)
    \/ \E p \in WatchPaths : DebounceFire(p)
    \/ \E p \in WatchPaths : Unlink(p)
    \/ \E t \in utimers : UnlinkExpire(t)
    \/ Tick(MaxTime)

SpecRename == Init /\ [][NextRename]_vars

\* the running application with its timers and the trash primitive treated
\* fairly: a timer that is due runs, a trash call returns, and the clock
\* reaches the next due time
NextLive ==
    \/ Boot
    \/ \E h \in Handles : JobFire(h)
    \/ \E i \in Ids : StaggerFire(i)
    \/ \E f \in Slots : ConfirmTimeout(f)
    \/ \E i \in CmdIds, d \in {"delete", "keep"} : ConfirmResponse(i, d)
    \/ \E f \in Slots, ok \in BOOLEAN, notif \in BOOLEAN : TrashDone(f, ok, notif)
    \/ \E i \in CmdIds : Cancel(i)
    \/ \E i \in CmdIds : Remove(i)
    \/ Tick(LongTime)

SpecLive ==
    /\ Init /\ [][NextLive]_vars
    /\ WF_vars(\E h \in Handles : JobFire(h))
    /\ WF_vars(\E i \in Ids : StaggerFire(i))
    /\ WF_vars(\E f \in Slots : ConfirmTimeout(f))
    /\ WF_vars(\E f \in Slots, ok \in BOOLEAN, notif \in BOOLEAN : TrashDone(f, ok, notif))
    /\ WF_vars(Tick(LongTime))

\* start-up over a full persisted queue: what earlier sessions can have left
\* (a status-only patch to deleted or failed keeps the old deadline)
BootItems(i) ==
    LET it(st, at, n) == [status |-> st, scheduledFor |-> at, snoozeCount |-> n,
                          error |-> "", filePath |-> i, inode |-> i, fileSize |-> 1]
    IN  {it("pending", Null, 0), it("scheduled", PastDeadline, 0),
         it("scheduled", FutureDeadline, 0), it("whitelisted", Null, 0),
         it("deleted", PastDeadline, 0), it("failed", FutureDeadline, 3)}

BootState ==
    /\ now = BootTime
    /\ phase = "boot"
    /\ watchers = <<>>
    /\ queue \in {q \in [Ids -> UNION {BootItems(i) : i \in Ids}] :
                     \A i \in Ids : q[i] \in BootItems(i)}
    /\ fsys = [p \in Paths |-> IF queue[p].status = "deleted" THEN 0 ELSE p]
    /\ debounce = [p \in Paths |-> Null]
    /\ used = MaxItems
    /\ burst = [p \in Paths |-> NoBurst]
    /\ unlinked = [n \in Inodes |-> NoUnlink]
    /\ reported = [p \in Paths |-> 0]
    /\ jobs = [i \in Ids |-> 0]
    /\ sched = [h \in Handles |-> NoJob]
    /\ stagger = [i \in Ids |-> Null]
    /\ pend = [i \in Ids |-> 0]
    /\ ctimer = [f \in Slots |-> Null]
    /\ firings = [f \in Slots |-> FreeFrame]
    /\ unlinkQ = {}
    /\ ru = [n \in Inodes |-> NoEntry]
    /\ utimers = {}
    /\ ev = NoEv
    /\ kept = [i \in Ids |-> FALSE]
    /\ cancelled = [i \in Ids |-> FALSE]
    /\ lockRun = [i \in Ids |-> 0]
    /\ ncmd = 0
    /\ probe = NoProbe

InitBoot == BootState /\ dialogs = NoDialogs

NextBoot ==
    \/ Boot
    \/ \E i \in Ids : StaggerFire(i)
    \/ \E h \in Handles : JobFire(h)
    \/ \E f \in Slots : ConfirmTimeout(f)
    \/ \E f \in Slots, ok \in BOOLEAN, notif \in BOOLEAN : TrashDone(f, ok, notif)
    \/ Tick(MaxTime)

SpecBoot == InitBoot /\ [][NextBoot]_vars

\* ConfirmDeleteDialog's handlers for the displayed payload: they return at
\* once when `responded` is set, else set it, invoke FILE_CONFIRM_RESPONSE
\* (handled by resolveConfirmation in the main process) and call onDismiss
Respond(d, op) ==
    LET i  == Head(dialogs.queue).item
        f  == pend[i]
        E0 == [Cur EXCEPT !.dialogs.responded = TRUE]
        E1 == RunMicrotasks(resolveConfirmation(E0, i, d, "user"))
        E2 == [E1 EXCEPT !.dialogs = dismiss(@)]
    IN  /\ Commit(E2)
        /\ ev' = [NoEv EXCEPT !.op = op, !.item = i, !.found = f # 0,
                    !.decision = IF f = 0 THEN "none" ELSE d,
                    !.via = IF f = 0 THEN "none" ELSE "user",
                    !.trashed = i \in E1.trashed]
        /\ lockRun' = [lockRun EXCEPT ![i] = Null]

\* handleDelete / handleKeep: the user clicks a button of the dialog
DialogClick(d) ==
    /\ Running
    /\ dialogs.queue # <<>> /\ ~dialogs.responded
    /\ Respond(d, "click")
    /\ UNCHANGED <<now, phase, watchers, stagger, ru, utimers, ncmd, probe, debounce, used, burst, unlinked>>

\* the setInterval callback finding deadline - Date.now() <= 0
DialogCountdown ==
    /\ Running
    /\ dialogs.queue # <<>> /\ ~dialogs.responded
    /\ Head(dialogs.queue).deadline <= now
    /\ Respond("delete", "countdown")
    /\ UNCHANGED <<now, phase, watchers, stagger, ru, utimers, ncmd, probe, debounce, used, burst, unlinked>>

\* start-up over a persisted queue of scheduled entities, some overdue, with
\* the renderer listening
InitDialog ==
    /\ BootState
    /\ \A i \in Ids : queue[i].status = "scheduled"
    /\ dialogs = Listening

\* (no job comes due before the clock stops)
NextDialog ==
    \/ Boot
    \/ \E i \in Ids : StaggerFire(i)
    \/ \E f \in Slots : ConfirmTimeout(f)
    \/ \E f \in Slots, ok \in BOOLEAN, notif \in BOOLEAN : TrashDone(f, ok, notif)
    \/ \E d \in {"delete", "keep"} : DialogClick(d)
    \/ DialogCountdown
    \/ Tick(BootTime + DialogSpan)

SpecDialog == InitDialog /\ [][NextDialog]_vars

TypeOK ==
    /\ phase \in {"boot", "running", "quit"}
    /\ \A i \in Ids : queue[i].status \in Statuses \cup {"absent"}
    /\ \A i \in Ids : jobs[i] \in Handles \cup {0, Dead}

\* the uncancelled, unfired node-schedule jobs of entity i
LiveJobs(i) == {h \in Handles : sched[h] # NoJob /\ sched[h].item = i}

\* attemptDeletion calls of entity i awaiting a confirmation
Awaiting(i) == {f \in Slots : firings[f].pc = "confirm" /\ firings[f].item = i}

IsFiring == ev.op \in {"job", "stagger"}

\* ------------------------------------------------------------------ claims

\* C1: the trash primitive is invoked only in a firing sequence in which the
\* file existed, Tier 1 reported unlocked and either Tier 2 matched nothing or
\* the confirmation resolved delete; a sequence Tier 1 reports locked never
\* invokes it.
C1_TrashOnlyAfterChecks ==
    /\ ev.trashed => /\ ev.existed
                     /\ ~ev.locked
                     /\ (~ev.matched \/ ev.decision = "delete")
    /\ ev.locked => ~ev.trashed

C1_Witness ==
    /\ ev.op = "response" /\ ev.trashed /\ ev.matched /\ ev.decision = "delete"
    /\ \E f \in Slots : firings[f].pc = "trash" /\ firings[f].item = ev.item

\* C2: from snoozeCount 0, with Tier 1 reporting locked at every firing and
\* no user command in between, the 1st, 2nd and 3rd firing each leave the
\* entity snoozed with snoozeCount 1, 2, 3 and a job in the table due 10
\* minutes after the firing; the 4th leaves it failed with an error, with no
\* job, and snoozeCount still 3.
C2_LockedRetries ==
    \A i \in Ids :
        (IsFiring /\ ev.item = i /\ lockRun[i] # Null /\ lockRun[i] >= 1) =>
            IF lockRun[i] <= 3
            THEN /\ queue[i].status = "snoozed"
                 /\ queue[i].snoozeCount = lockRun[i]
                 /\ queue[i].scheduledFor = now + 10 * 60 * 1000
                 /\ jobs[i] \in Handles
                 /\ sched[jobs[i]] = [item |-> i, at |-> now + 10 * 60 * 1000]
                 /\ LiveJobs(i) = {jobs[i]}
            ELSE /\ lockRun[i] = 4
                 /\ queue[i].status = "failed"
                 /\ queue[i].error # ""
                 /\ queue[i].snoozeCount = 3
                 /\ jobs[i] = 0
                 /\ LiveJobs(i) = {}

C2_Witness ==
    /\ IsFiring /\ ev.locked /\ lockRun[1] = 4
    /\ queue[1].status = "failed" /\ queue[1].snoozeCount = 3

\* C3: when the 15 s timer of a confirmation runs out with no response, the
\* confirmation resolves delete and that firing sequence invokes the trash
\* primitive exactly once, the entity being put in deleting; when that trash
\* call succeeds the entity is deleted.
C3_TimeoutDeletes ==
    /\ ev.op = "timeout" =>
          /\ now = ev.since + 15000
          /\ ev.trashed
          /\ \E f \in Slots : /\ firings[f].item = ev.item
                               /\ firings[f].pc = "trash"
                               /\ firings[f].decision = "delete"
                               /\ firings[f].via = "timeout"
                               /\ firings[f].trashCalls = 1
          /\ Has(queue, ev.item) => queue[ev.item].status = "deleting"
    /\ (ev.op = "trashDone" /\ ev.via = "timeout" /\ ev.ok) =>
          /\ ev.calls = 1
          /\ Has(queue, ev.item) => queue[ev.item].status = "deleted"

C3_Witness ==
    /\ ev.op = "trashDone" /\ ev.via = "timeout" /\ ev.ok /\ ev.calls = 1
    /\ queue[ev.item].status = "deleted"

\* C4: after a confirmation resolves keep the entity is pending with a null
\* deadline, no scheduler job of it is left, and the trash primitive is not
\* invoked for it until scheduleItem or snoozeItem is called again.
C4_KeepIsFinal ==
    /\ (ev.op = "response" /\ ev.decision = "keep" /\ Has(queue, ev.item)) =>
          /\ queue[ev.item].status = "pending"
          /\ queue[ev.item].scheduledFor = Null
          /\ jobs[ev.item] = 0
          /\ LiveJobs(ev.item) = {}
    /\ \A i \in Ids : (ev.trashed /\ ev.item = i) => ~kept[i]

\* C5: a firing whose Tier 2 probe errors, times out or exits non-zero sees
\* no match: no confirmation is requested, the status does not become
\* confirming, and the sequence goes on to trash as in the no-match case.
C5_TitleProbeFailsOpen ==
    (IsFiring /\ ev.t2fail) =>
        /\ ~ev.matched
        /\ ~ev.asked
        /\ queue[ev.item].status = "deleting"
        /\ ev.trashed
        /\ \E f \in Slots : /\ firings[f].item = ev.item
                             /\ firings[f].pc = "trash"
                             /\ ~firings[f].matched
                             /\ firings[f].trashCalls = 1

C5_Witness ==
    /\ IsFiring /\ ev.t2fail /\ ev.trashed
    /\ queue[ev.item].status = "deleting"

\* C6: whenever the Restart Manager invocation fails (spawn error, timeout,
\* or an exit status that is neither 0 nor the "locked" answer 1),
\* isFileLocked returns what the rename probe decides: locked exactly when
\* one of the two renames fails.
C6_ProbeFailureFallsBack ==
    (probe.fn = "isFileLocked" /\ probe.done
        /\ (probe.in.err \/ probe.in.status \notin {0, 1})) =>
            (probe.out <=> ~(probe.in.r1 /\ probe.in.r2))

\* C7: cancelItem on an existing entity leaves it pending with a null
\* deadline, no job of it in the table and no confirmation of it outstanding,
\* and calling it a second time changes nothing.
C7_CancelTotalIdempotent ==
    \A i \in Ids :
        (ev.op = "cancel" /\ ev.item = i /\ ev.found) =>
            /\ queue[i].status = "pending"
            /\ queue[i].scheduledFor = Null
            /\ jobs[i] = 0
            /\ pend[i] = 0
            /\ Awaiting(i) = {}
            /\ LET E2 == RunMicrotasks(cancelItem(Cur, i))
               IN  /\ E2.queue = queue /\ E2.jobs = jobs /\ E2.sched = sched
                   /\ E2.pend = pend /\ E2.ctimer = ctimer /\ E2.firings = firings

\* C8: an entity never has more than one live scheduler job.
C8_OneLiveJob ==
    \A i \in Ids : Cardinality(LiveJobs(i)) <= 1

\* C9: an entity whose scheduledFor is null has no live scheduler job.
C9_NullDeadlineNoJob ==
    \A i \in Ids :
        (Has(queue, i) /\ queue[i].scheduledFor = Null) => LiveJobs(i) = {}

\* C10: an entity whose status is deleted or failed has no live scheduler job.
C10_TerminalNoJob ==
    \A i \in Ids :
        queue[i].status \in {"deleted", "failed"} => LiveJobs(i) = {}

\* the entities that count as tracked at path p
ActiveAt(p) == {i \in Ids : Has(queue, i) /\ queue[i].filePath = p
                            /\ queue[i].status \notin {"deleted", "failed"}}

\* C11: the raw add events of one path that follow each other within the
\* debounce window keep exactly one timer pending, due 500 ms after the last
\* of them; handleNewFile runs for them once, 500 ms after the last one, and
\* when it creates an entity it creates exactly one, the only tracked entity
\* of that path.
C11_DebounceCoalesces ==
    /\ \A p \in Paths :
          /\ burst[p].n >= 1 => debounce[p] = burst[p].last + 500
          /\ burst[p].n = 0 => debounce[p] = Null
    /\ (ev.op = "newFile" /\ ev.kind = "new") =>
          /\ ev.adds >= 1
          /\ now = ev.last + 500
          /\ used = ev.item
          /\ ActiveAt(ev.path) = {ev.item}
          /\ burst[ev.path].n = 0

C11_Witness ==
    /\ ev.op = "newFile" /\ ev.kind = "new" /\ ev.adds = 2
    /\ ev.last = ev.first + 400
    /\ now = ev.first + 900
    /\ ActiveAt(ev.path) = {ev.item}

\* C12: when handleNewFile runs for an untracked path whose file carries the
\* inode of a tracked entity that was unlinked, and the last raw add of the
\* path arrived less than RENAME_WINDOW_MS after that raw unlink, the add
\* is reconciled as a rename of that entity: no new entity is created and the
\* entity is not finalised as deleted
C12_AddInWindowIsRename ==
    (/\ ev.op = "newFile" /\ ev.kind \in {"rename", "new"}
     /\ ev.gone.id # 0
     /\ ev.last >= ev.gone.at
     /\ ev.last < ev.gone.at + RENAME_WINDOW_MS)
       => /\ ev.kind = "rename"
          /\ ev.item = ev.gone.id
          /\ queue[ev.gone.id].status # "deleted"
          /\ queue[ev.gone.id].filePath = ev.path

\* C13: a rename match changes only the entity's filePath (with the
\* fileName and fileExtension derived from it) and fileSize; its id, status,
\* deadline, snoozeCount and scheduler job are as before, no entity is
\* created, and the rename-table entry and the expiry timer it holds are gone
C13_RenameFrame ==
    (ev.op = "newFile" /\ ev.kind = "rename") =>
        LET i == ev.item
        IN  /\ queue[i] = [ev.pre EXCEPT !.filePath = ev.path,
                                         !.fileSize = queue[i].fileSize]
            /\ jobs[i] = ev.prejob
            /\ used = ev.preused
            /\ ru[queue[i].inode] = NoEntry
            /\ \A t \in utimers : ~(/\ t.id = i /\ t.ino = queue[i].inode
                                      /\ t.due = ev.gone.at + RENAME_WINDOW_MS)

C13_Witness ==
    /\ ev.op = "newFile" /\ ev.kind = "rename"
    /\ ev.pre.status = "scheduled" /\ ev.pre.scheduledFor # Null
    /\ ev.pre.filePath # ev.path
    /\ queue[ev.item].filePath = ev.path
    /\ queue[ev.item].fileSize # ev.pre.fileSize
    /\ LiveJobs(ev.item) # {}

\* the suspended attemptDeletion calls of entity i
FramesOf(i) == {f \in Slots : firings[f].pc # "free" /\ firings[f].item = i}

\* C14: once the rename window of an unlinked entity has run out with no add
\* reconciled, and nothing of the entity is still in flight (no suspended
\* firing, no live job, no stagger timer), the entity is deleted with a null
\* deadline and no outstanding confirmation
C14_UnlinkedEndsDeleted ==
    (/\ ev.op = "expire" /\ ev.found
     /\ FramesOf(ev.item) = {} /\ LiveJobs(ev.item) = {}
     /\ stagger[ev.item] = Null)
       => /\ queue[ev.item].status = "deleted"
          /\ queue[ev.item].scheduledFor = Null
          /\ pend[ev.item] = 0

\* C15: no two entities whose status is neither deleted nor failed have the
\* same filePath
C15_OneActivePerPath ==
    \A p \in Paths : Cardinality(ActiveAt(p)) <= 1

\* the entities whose status is neither deleted nor failed
Active == {i \in Ids : Has(queue, i) /\ queue[i].status \notin {"deleted", "failed"}}

\* C16: no two entities whose status is neither deleted nor failed have the
\* same inode
C16_OneActivePerInode ==
    \A i \in Active, j \in Active : i # j => queue[i].inode # queue[j].inode

\* C17: an entity never has more than one attemptDeletion call in flight
C17_OneFiringPerEntity ==
    \A i \in Ids : Cardinality(FramesOf(i)) <= 1

\* the live confirmation requests of entity i: promises of
\* waitForConfirmation not yet resolved whose timeout is still running
LiveRequests(i) == {f \in FramesOf(i) : /\ firings[f].pc = "confirm"
                                        /\ firings[f].decision = "none"
                                        /\ ctimer[f] # Null}

\* C18: an entity has at most one live confirmation request, and a live
\* request is the one pendingConfirmations holds for the entity (no other
\* request's timeout or resolution has removed or replaced it)
C18_OneLiveConfirmation ==
    \A i \in Ids :
        /\ Cardinality(LiveRequests(i)) <= 1
        /\ \A f \in LiveRequests(i) : pend[i] = f

\* the entities reconcileOnStartup acts on, by their persisted record
Reconciled(q, i) == /\ q[i].status \notin {"absent", "deleted", "failed", "whitelisted"}
                    /\ q[i].scheduledFor # Null

OverdueAhead(q, i) == {j \in Ids : /\ j > i /\ Reconciled(q, j)
                                   /\ q[j].scheduledFor <= BootTime}

\* C20: reconcileOnStartup queues the k-th overdue entity in queue order
\* k * 500 ms after start-up, entities with a future deadline taking no
\* slot; no two queued firings are due together, and none is started late
C20_StaggeredFirings ==
    /\ ev.op = "boot" =>
          \A i \in Ids : stagger[i] # Null =>
              stagger[i] = BootTime
                             + OVERDUE_STAGGER_MS * Cardinality(OverdueAhead(ev.q0, i))
    /\ \A i \in Ids, j \in Ids :
          (i # j /\ stagger[i] # Null /\ stagger[j] # Null) => stagger[i] # stagger[j]
    /\ \A i \in Ids : stagger[i] # Null => stagger[i] >= now
    /\ ev.op = "stagger" => /\ now \in {BootTime + OVERDUE_STAGGER_MS * k : k \in 0..(MaxItems - 1)}
                            /\ \A j \in Ids : (j > ev.item) => stagger[j] = Null

\* the third persisted entity's firing starts 500 ms after start-up: the
\* first one was overdue, the second one had a future deadline
C20_Witness ==
    /\ ev.op = "stagger" /\ ev.item = 1
    /\ now = BootTime + OVERDUE_STAGGER_MS
    /\ LiveJobs(2) # {} /\ queue[2].scheduledFor = FutureDeadline
    /\ queue[3].scheduledFor = PastDeadline /\ queue[3].status \in {"deleting", "confirming"}

\* C21: when cancelAllJobs has returned, the job table is empty and every job
\* it held is cancelled; no confirmation request is outstanding, and every
\* firing that was waiting for one has ended, its entity (if still in the
\* queue) pending with a null deadline, without trash being invoked
C21_ShutdownCancelsAll ==
    ev.op = "quit" =>
        /\ \A i \in Ids : /\ jobs[i] = 0
                          /\ ev.jobs0[i] \in Handles => sched[ev.jobs0[i]] = NoJob
        /\ \A i \in Ids : pend[i] = 0 /\ LiveRequests(i) = {}
        /\ \A i \in Ids : ev.pend0[i] # 0 =>
              /\ firings[ev.pend0[i]] = FreeFrame
              /\ Has(queue, i) => /\ queue[i].status = "pending"
                                  /\ queue[i].scheduledFor = Null
        /\ ~ev.trashed

\* C22 as stated: an explicit scheduling with a minute count leaves the
\* entity's snoozeCount at 0
C22_ScheduleResetsCounter ==
    (ev.op = "setTimer" /\ queue[ev.item].status = "scheduled") =>
        queue[ev.item].snoozeCount = 0

\* C22 as the code has it: no step ever lowers an entity's snoozeCount, and
\* scheduleItem, with a minute count or without, leaves it as it was
C22_CounterNeverReset ==
    [][\A i \in Ids :
          (Has(queue, i) /\ Has(queue', i)) =>
              /\ queue'[i].snoozeCount >= queue[i].snoozeCount
              /\ (ev'.op = "setTimer" /\ ev'.item = i) =>
                    queue'[i].snoozeCount = queue[i].snoozeCount]_vars

C22_Witness ==
    /\ ev.op = "setTimer" /\ ev.snooze >= 1
    /\ queue[ev.item].status = "scheduled"
    /\ queue[ev.item].snoozeCount = ev.snooze

\* C23: snoozeItem on an existing entity sets the deadline to the later of
\* the current deadline and now, plus 10 minutes, adds exactly 1 to
\* snoozeCount, sets status snoozed, cancels the job the table held and puts
\* in its place one live job due at the new deadline; on an unknown id it
\* changes nothing
C23_ManualSnooze ==
    [][\A i \in Ids :
          (ev'.op = "snooze" /\ ev'.item = i) =>
              IF Has(queue, i)
              THEN LET old  == queue[i].scheduledFor
                       base == IF old # Null /\ old > now THEN old ELSE now
                   IN  /\ queue'[i].scheduledFor = base + SNOOZE_MINUTES * MsPerMinute
                       /\ queue'[i].snoozeCount = queue[i].snoozeCount + 1
                       /\ queue'[i].status = "snoozed"
                       /\ jobs'[i] \in Handles
                       /\ sched'[jobs'[i]] = [item |-> i, at |-> queue'[i].scheduledFor]
                       /\ (jobs[i] \in Handles /\ jobs[i] # jobs'[i]) =>
                             sched'[jobs[i]] = NoJob
              ELSE UNCHANGED <<queue, jobs, sched, pend, ctimer, firings>>]_vars

\* a manual snooze of an entity whose deadline is still ahead: the deadline
\* moves 10 minutes past the old one, not to now + 10 minutes
C23_Witness ==
    /\ ev.op = "snooze" /\ ev.found
    /\ queue[ev.item].status = "snoozed"
    /\ queue[ev.item].snoozeCount = ev.snooze + 1
    /\ queue[ev.item].scheduledFor = FutureDeadline + SNOOZE_MINUTES * MsPerMinute
    /\ queue[ev.item].scheduledFor > now + SNOOZE_MINUTES * MsPerMinute
    /\ jobs[ev.item] \in Handles

\* the positions of the enabled rules of a list that match the file
Hits(rules) ==
    {k \in 1..Len(rules) :
        /\ rules[k].enabled
        /\ \/ rules[k].type = "extension" /\ rules[k].value = FileExt
           \/ rules[k].type = "filename" /\ rules[k].value = FileBase}

C25_FiringNeverThrows ==
    ev.op \in {"job", "stagger", "timeout", "response", "trashDone", "cancel",
               "expire", "quit"} => ~ev.threw

C27_TrashFailureRetries ==
    [][\A i \in Ids :
          (Has(queue, i) /\ Has(queue', i)) =>
              LET n     == queue[i].snoozeCount + 1
                  until == now + SNOOZE_MINUTES * MsPerMinute
              IN  /\ queue'[i].snoozeCount >= queue[i].snoozeCount
                  /\ (ev'.op = "trashDone" /\ ev'.item = i /\ ~ev'.ok) =>
                        IF n > MAX_SNOOZE_COUNT
                        THEN /\ queue'[i] = [queue[i] EXCEPT !.status = "failed",
                                                             !.error = "trash error"]
                             /\ jobs'[i] = 0
                             /\ \A h \in Handles :
                                   sched'[h] # NoJob => sched'[h] = sched[h]
                        ELSE /\ queue'[i] = [queue[i] EXCEPT !.status = "snoozed",
                                                             !.snoozeCount = n,
                                                             !.scheduledFor = until]
                             /\ jobs'[i] \in Handles
                             /\ sched'[jobs'[i]] = [item |-> i, at |-> until]
                  /\ (/\ \/ ev'.op = "trashDone" /\ ~ev'.ok
                         \/ ev'.op \in {"job", "stagger"} /\ ev'.locked
                      /\ ev'.item = i /\ queue'[i].status = "snoozed") =>
                        /\ queue'[i].snoozeCount = n
                        /\ n <= MAX_SNOOZE_COUNT]_vars

\* a trash failure snoozes an entity that had been snoozed before
C27_Witness ==
    /\ ev.op = "trashDone" /\ ~ev.ok
    /\ Has(queue, ev.item)
    /\ queue[ev.item].status = "snoozed"
    /\ queue[ev.item].snoozeCount >= 2
    /\ queue[ev.item].scheduledFor = now + SNOOZE_MINUTES * MsPerMinute
    /\ jobs[ev.item] \in Handles

\* C28: status whitelisted is set only by handleNewFile when the first
\* matching enabled rule says never-delete, and a step of scheduleItem,
\* cancelItem, snoozeItem, reconcileOnStartup or a firing sequence leaves a
\* whitelisted entity whitelisted and gives it no job
C28_WhitelistedIsTerminal ==
    [][\A i \in Ids :
          /\ (/\ Has(queue', i) /\ queue'[i].status = "whitelisted"
              /\ ~(Has(queue, i) /\ queue[i].status = "whitelisted")) =>
                 /\ ev'.op = "newFile" /\ ev'.kind = "new" /\ ev'.item = i
                 /\ Hits(ev'.rules) # {}
                 /\ ev'.rules[Min(Hits(ev'.rules))].action = "never-delete"
          /\ (/\ Has(queue, i) /\ queue[i].status = "whitelisted"
              /\ ev'.op \in {"setTimer", "cancel", "snooze", "boot", "job",
                             "stagger", "timeout", "response", "trashDone"}) =>
                 /\ Has(queue', i) /\ queue'[i].status = "whitelisted"
                 /\ jobs'[i] \notin Handles
                 /\ \A h \in Handles :
                       (sched'[h] # NoJob /\ sched'[h].item = i) =>
                           sched'[h] = sched[h]]_vars

\* C29: a raw unlink for a path whose debounce timer is pending removes the
\* timer and creates nothing, and handleNewFile only ever runs for a path
\* in answer to an add that arrived after the path's last unlink, so the
\* discarded add never yields an entity
C29_UnlinkDiscardsPendingAdd ==
    [][\A p \in WatchPaths :
          /\ (ev'.op = "unlink" /\ ev'.path = p /\ debounce[p] # Null) =>
                /\ debounce'[p] = Null
                /\ queue' = queue /\ used' = used
          /\ (ev'.op = "newFile" /\ ev'.path = p) => burst[p].n >= 1]_vars

C29_Witness ==
    /\ ev.op = "unlink" /\ ev.adds >= 1
    /\ debounce[ev.path] = Null
    /\ FindActiveByPath(queue, ev.path) = 0
    /\ used = 1

\* C30: an entity whose error string is not empty has status failed
C30_ErrorOnlyInFailed ==
    \A i \in Ids : (Has(queue, i) /\ queue[i].error # "") => queue[i].status = "failed"

\* C31: stopWatcher leaves no debounce timer and no rename-window timer
\* pending, so every timer that creates or finalizes an entity was armed in
\* the current watcher session; and at most one chokidar instance is open
C31_StopClearsTimers ==
    /\ Cardinality(OpenWatchers) <= 1
    /\ ev.op \in {"settings", "quit"} =>
          /\ \A p \in Paths : debounce[p] = Null
          /\ utimers = {}
    /\ \A t \in utimers :
          /\ OpenWatchers # {}
          /\ t.due - RENAME_WINDOW_MS >= watchers[Len(watchers)].since
    /\ \A p \in Paths :
          debounce[p] # Null =>
              /\ OpenWatchers # {}
              /\ debounce[p] - DEBOUNCE_MS >= watchers[Len(watchers)].since

\* C32: once cancelItem has returned for an entity, no step invokes the
\* trash primitive for it before scheduleItem or snoozeItem is called for it
C32_NoTrashAfterCancel ==
    \A i \in Ids : (ev.trashed /\ ev.item = i /\ ev.op # "cancel") => ~cancelled[i]

\* C33: the trash primitive is never invoked for an entity that the remove
\* command has taken out of the queue
C33_NoTrashAfterRemove ==
    \A i \in Ids : (ev.trashed /\ ev.item = i) => Has(queue, i)

\* C34: an entity with a confirmation request outstanding has status
\* confirming
C34_ConfirmingWhileAsked ==
    \A i \in Ids : (Has(queue, i) /\ LiveRequests(i) # {}) => queue[i].status = "confirming"

\* C35: while the application runs, an entity that is scheduled or snoozed
\* with a deadline has a live scheduler job, a staggered start-up firing
\* still to come, or an attemptDeletion call in flight
C35_ScheduledHasJob ==
    Running =>
        \A i \in Ids :
            (/\ Has(queue, i)
             /\ queue[i].status \in {"scheduled", "snoozed"}
             /\ queue[i].scheduledFor # Null) =>
                \/ LiveJobs(i) # {}
                \/ stagger[i] # Null
                \/ FramesOf(i) # {}

\* the watcher at rest: every raw event delivered, no debounce timer and no
\* rename-window timer pending
AtRest == /\ Running /\ unlinkQ = {} /\ utimers = {}
          /\ \A p \in Paths : debounce[p] = Null

\* C36: once the watcher is at rest, every file still present that an add
\* event reported has exactly one entity with status outside deleted and
\* failed at its path
C36_ReportedFileTracked ==
    AtRest =>
        \A p \in WatchPaths :
            (fsys[p] # 0 /\ reported[p] = fsys[p]) => Cardinality(ActiveAt(p)) = 1

\* C37: when a rename-window expiry marks an entity deleted, no file exists
\* at the entity's recorded path
C37_ExpiryOnlyWhenGone ==
    (ev.op = "expire" /\ ev.found /\ queue[ev.item].status = "deleted") =>
        fsys[queue[ev.item].filePath] = 0

\* C38: a step that invokes the trash primitive passes it the filePath the
\* entity has in the store at that moment
C38_TrashUsesStoredPath ==
    [][\A f \in Slots :
          (/\ firings'[f].pc = "trash" /\ firings[f].pc # "trash"
           /\ Has(queue', firings'[f].item)) =>
              firings'[f].path = queue'[firings'[f].item].filePath]_vars

\* C39: an entity that is confirming or deleting eventually is pending,
\* snoozed, deleted or failed (or is gone from the queue)
C39_FiringTerminates ==
    \A i \in CmdIds :
        (Has(queue, i) /\ queue[i].status \in {"confirming", "deleting"})
            ~> (\/ ~Has(queue, i)
                \/ queue[i].status \in {"pending", "snoozed", "deleted", "failed"})

\* a confirmation nobody answered timed out, the trash call it led to has
\* returned, and the entity rests in a settled status with no firing left
C39_Witness ==
    /\ ev.op = "trashDone" /\ ev.via = "timeout"
    /\ Has(queue, ev.item)
    /\ queue[ev.item].status \in {"snoozed", "deleted", "failed"}
    /\ FramesOf(ev.item) = {}

\* C40: a confirmation request that its 15 s timeout resolves has been
\* displayed by the renderer's one-at-a-time queue before that.
C40_ShownBeforeTimeout ==
    ev.op = "timeout" =>
        [item |-> ev.item, deadline |-> ev.since + CONFIRM_TIMEOUT_MS] \in dialogs.shown

====
